---- MODULE Spec2Model ----
(***************************************************************************)
(* A model of wasmasc (src/src/lib.rs): the AssemblyScript builder's       *)
(* project detection, entry-file resolution, two-strategy build, clean,    *)
(* and the C-ABI boundary that hands builders and results to a host.       *)
(*                                                                         *)
(* A path below the project root is a record [dir, stem, ext]: the         *)
(* directory relative to the root ("." is the root itself), the file stem  *)
(* and the extension ("" when the name has none).  Path::join, file_name,  *)
(* file_stem and extension are then field operations.                      *)
(***************************************************************************)
EXTENDS Integers, Sequences, FiniteSets, TLC

VARIABLES
    projIsDir,   \* Path::new(project_path).is_dir()
    files,       \* the files that exist, each [dir, stem, ext]
    dirs,        \* the directories that exist (besides the project root)
    manifest,    \* the text of <project>/package.json, a sequence of characters
    tools,       \* the executables for which `<tool> --version` succeeds
    config,      \* the BuildConfig: output_dir, optimization_level
    oracle,      \* what the external processes and the OS will do when asked
    op,          \* the operation that ran last ("none" before any)
    ret,         \* what it returned
    trace,       \* what the last build did: strategies tried, command, copies
    log,         \* the results of the clean calls so far
    heap,        \* the live Box<AscPlugin> allocations (addresses)
    held,        \* per address, how many handles to it the host holds undropped
    call,        \* the last boundary call: its arguments and what came back
    owned        \* the BuildResultC boxes and CStrings given to the host, not freed

fsVars == <<projIsDir, files, dirs, manifest>>
envVars == <<tools, config, oracle>>
opVars == <<op, ret, trace>>
ffiVars == <<heap, held, call, owned>>
vars == <<projIsDir, files, dirs, manifest, tools, config, oracle, op, ret,
          trace, log, heap, held, call, owned>>

----------------------------------------------------------------------------
(* Paths *)

File(d, s, e) == [dir |-> d, stem |-> s, ext |-> e]

NoPath == File("", "", "")

\* Path::new(d).join(<file name of f>)
JoinName(d, f) == File(d, f.stem, f.ext)

PackageJson == File(".", "package", "json")

\* The candidates array of find_entry_file, in its order.
Phase1Candidates ==
    << File("assembly", "index", "ts"),
       File("assembly", "main", "ts"),
       File("src", "index", "ts"),
       File("src", "main", "ts"),
       File(".", "index", "ts"),
       File(".", "main", "ts") >>

\* The directories find_entry_file scans when no candidate exists.
ScanDirs == <<"assembly", "src", ".">>

\* The list find_entry_file puts into MissingEntryFile.
MissingEntryList ==
    << File("assembly", "index", "ts"),
       File("assembly", "main", "ts"),
       File(".", "index", "ts") >>

\* WasmBuilder::entry_file_candidates
EntryFileCandidates ==
    << File("assembly", "index", "ts"),
       File("assembly", "main", "ts"),
       PackageJson,
       File("assembly", "package", "json") >>

\* WasmBuilder::supported_extensions
SupportedExtensions == {"ts"}

\* The files Plugin::can_handle_project looks for.
AssemblyFiles ==
    << File("assembly", "index", "ts"), File("assembly", "main", "ts") >>

\* Path::exists for a file path, in the file system F.
Exists(F, f) == f \in F

\* fs::read_dir(d): the entries of one directory, in no fixed order.  An
\* absent directory has no entries (the callers ignore the error).
ReadDir(F, d) == {f \in F : f.dir = d}

Range(s) == {s[i] : i \in 1..Len(s)}

MinOf(S) == CHOOSE x \in S : \A y \in S : x <= y

\* str::contains: pat occurs in text as a contiguous subsequence.
Contains(text, pat) ==
    \E i \in 0..(Len(text) - Len(pat)) :
        \A j \in 1..Len(pat) : text[i + j] = pat[j]

TokenAsc == <<"a", "s", "c">>

TokenAtAsc == <<"@", "a", "s", "c">>

----------------------------------------------------------------------------
(* Results.  A PluginResult<T>, a bool and a BuildResult share one record   *)
(* shape: ok (Ok or Err), bool (the value of a bool-returning operation),   *)
(* err (the PluginError variant), reason / tool (its payload), path (the    *)
(* PathBuf or BuildResult.wasm_path), js, additional, bindgen (the other    *)
(* BuildResult fields) and candidates (MissingEntryFile's payload).         *)

NoRet ==
    [ok |-> FALSE, bool |-> FALSE, err |-> "none", reason |-> "",
     path |-> NoPath, js |-> NoPath, additional |-> <<>>, bindgen |-> FALSE,
     candidates |-> <<>>]

OkUnit == [NoRet EXCEPT !.ok = TRUE]

OkPath(p) == [NoRet EXCEPT !.ok = TRUE, !.path = p]

Bool(b) == [NoRet EXCEPT !.ok = TRUE, !.bool = b]

Err(kind, why) == [NoRet EXCEPT !.err = kind, !.reason = why]

ErrMissingEntryFile(c) ==
    [NoRet EXCEPT !.err = "MissingEntryFile", !.candidates = c]

----------------------------------------------------------------------------
(* Detection and entry-file resolution *)

\* AscPlugin::is_asc_project
is_asc_project ==
    IF Exists(files, PackageJson)
    THEN Contains(manifest, TokenAsc) \/ Contains(manifest, TokenAtAsc)
    ELSE FALSE

\* find_entry_file with the candidate loop running to its end: the last
\* existing candidate wins.
find_entry_file_last_wins(F) ==
    LET present == {i \in 1..Len(Phase1Candidates) : Exists(F, Phase1Candidates[i])}
        ts(d) == {f \in ReadDir(F, d) : f.ext = "ts"}
        hit == {i \in 1..Len(ScanDirs) : ts(ScanDirs[i]) # {}}
    IN  IF present # {}
        THEN {OkPath(Phase1Candidates[CHOOSE x \in present : \A y \in present : y <= x])}
        ELSE IF hit # {}
        THEN {OkPath(f) : f \in ts(ScanDirs[MinOf(hit)])}
        ELSE {ErrMissingEntryFile(MissingEntryList)}

\* AscPlugin::find_entry_file: the results it can return.  The first
\* existing candidate wins; otherwise the first scanned directory holding a
\* .ts entry yields whichever of them read_dir lists first.
find_entry_file(F) ==
    LET present == {i \in 1..Len(Phase1Candidates) : Exists(F, Phase1Candidates[i])}
        ts(d) == {f \in ReadDir(F, d) : f.ext = "ts"}
        hit == {i \in 1..Len(ScanDirs) : ts(ScanDirs[i]) # {}}
    IN  IF present # {}
        THEN {OkPath(Phase1Candidates[MinOf(present)])}
        ELSE IF hit # {}
        THEN {OkPath(f) : f \in ts(ScanDirs[MinOf(hit)])}
        ELSE {ErrMissingEntryFile(MissingEntryList)}

\* PathResolver::validate_directory_exists
validate_directory_exists ==
    IF ~projIsDir
    THEN Err("InvalidProjectStructure", "Directory does not exist")
    ELSE OkUnit

\* validate_project without its directory check.
validate_project_unchecked ==
    {IF r.ok THEN OkUnit ELSE r : r \in find_entry_file(files)}

\* WasmBuilder::validate_project: the results it can return.
validate_project ==
    IF ~validate_directory_exists.ok
    THEN {validate_directory_exists}
    ELSE {IF r.ok THEN OkUnit ELSE r : r \in find_entry_file(files)}

\* WasmBuilder::can_handle_project for AscPlugin
builder_can_handle_project ==
    IF \E f \in ReadDir(files, ".") : f.ext \in SupportedExtensions
    THEN TRUE
    ELSE \E i \in 1..Len(EntryFileCandidates) : Exists(files, EntryFileCandidates[i])

\* Plugin::can_handle_project looking for assembly/index.ts only.
plugin_can_handle_project_index_only ==
    IF is_asc_project
    THEN TRUE
    ELSE Exists(files, AssemblyFiles[1])

\* Plugin::can_handle_project for AscPlugin
plugin_can_handle_project ==
    IF is_asc_project
    THEN TRUE
    ELSE \E i \in 1..Len(AssemblyFiles) : Exists(files, AssemblyFiles[i])

NoAscArgs == [entry |-> NoPath, outFile |-> NoPath, flags |-> <<>>]

NoTrace ==
    [npmTried |-> FALSE, ascTried |-> FALSE, cmd |-> "none", args |-> <<>>,
     ascArgs |-> NoAscArgs, npmRet |-> NoRet, ascRet |-> NoRet, copies |-> {}]


Done(name, r) ==
    /\ op' = name
    /\ ret' = r
    /\ trace' = NoTrace

FindEntryFile ==
    /\ \E r \in find_entry_file(files) : Done("find_entry_file", r)
    /\ UNCHANGED <<fsVars, envVars, log, ffiVars>>

ValidateProject ==
    /\ \E r \in validate_project : Done("validate_project", r)
    /\ UNCHANGED <<fsVars, envVars, log, ffiVars>>

BuilderCanHandleProject ==
    /\ Done("can_handle_project", Bool(builder_can_handle_project))
    /\ UNCHANGED <<fsVars, envVars, log, ffiVars>>

PluginCanHandleProject ==
    /\ Done("plugin_can_handle_project", Bool(plugin_can_handle_project))
    /\ UNCHANGED <<fsVars, envVars, log, ffiVars>>

----------------------------------------------------------------------------
(* The build: package-manager strategy, direct-compiler strategy, fallback *)

\* The lockfile build_with_npm wants beside each manager.
Lockfile(cmd) ==
    CASE cmd = "bun" -> File(".", "bun", "lockb")
      [] cmd = "pnpm" -> File(".", "pnpm-lock", "yaml")
      [] cmd = "yarn" -> File(".", "yarn", "lock")

\* The directories build_with_npm searches for .wasm files, in order.
SearchDirs == <<"build", "dist", "out", "target", ".">>

\* CommandExecutor::is_tool_installed
is_tool_installed(tool) == tool \in tools

\* Path::is_dir / exists for a directory below (or beside) the project root.
DirExists(D, d) == d = "." \/ d \in D

\* What one step of a strategy leaves behind: its result, the file system
\* and the record of what it did.
Out(r, F, D, t) == [ret |-> r, files |-> F, dirs |-> D, trace |-> t]

\* The cmd selection with the lockfile probes left out.
select_manager_ignoring_lockfiles(F) ==
    IF is_tool_installed("bun") THEN "bun"
    ELSE IF is_tool_installed("pnpm") THEN "pnpm"
    ELSE IF is_tool_installed("yarn") THEN "yarn"
    ELSE IF is_tool_installed("npm") THEN "npm"
    ELSE "none"

\* The cmd selection of build_with_npm ("none": the CompileToolNotFound arm).
select_manager(F) ==
    IF is_tool_installed("bun") /\ Exists(F, Lockfile("bun")) THEN "bun"
    ELSE IF is_tool_installed("pnpm") /\ Exists(F, Lockfile("pnpm")) THEN "pnpm"
    ELSE IF is_tool_installed("yarn") /\ Exists(F, Lockfile("yarn")) THEN "yarn"
    ELSE IF is_tool_installed("npm") THEN "npm"
    ELSE "none"

\* The args match of build_with_npm.
manager_args(cmd) ==
    IF cmd = "yarn" THEN <<"build">> ELSE <<"run", "build">>

\* PathResolver::find_files_with_extension: the matching entries of one
\* directory (read_dir lists them in no fixed order).
find_files_with_extension(F, d, ext) == {f \in ReadDir(F, d) : f.ext = ext}

\* first_wasm_file with the directory order lost: any .wasm file of any
\* searched directory.
first_wasm_file_any_dir(F) ==
    UNION {find_files_with_extension(F, SearchDirs[i], "wasm") :
               i \in 1..Len(SearchDirs)}

\* The files that can stand at wasm_files[0] after the search loop of
\* build_with_npm: the list is the per-directory lists concatenated in the
\* order of search_dirs, so its head is an entry of the first directory
\* that holds a .wasm file.  Empty when the list is empty.
first_wasm_file(F) ==
    LET hit == {i \in 1..Len(SearchDirs) :
                    find_files_with_extension(F, SearchDirs[i], "wasm") # {}}
    IN  IF hit = {}
        THEN {}
        ELSE find_files_with_extension(F, SearchDirs[MinOf(hit)], "wasm")

\* CommandExecutor::copy_to_output(src, dst): fs::copy fails when the
\* destination directory is absent or the OS refuses the write.
copy_to_output(F, D, src, dst, t) ==
    IF ~Exists(F, src)
    THEN Out(Err("CompilationFailed", "build completed but output file not found"),
             F, D, t)
    ELSE IF ~DirExists(D, dst) \/ ~oracle.ioOk
    THEN Out(Err("Io", "copy"), F, D, t)
    ELSE Out(OkPath(JoinName(dst, src)),
             F \cup {JoinName(dst, src)}, D,
             [t EXCEPT !.copies = @ \cup {[src |-> src, dst |-> JoinName(dst, src)]}])

\* What running the package manager's build script leaves on disk.
AfterManager(F) == F \cup oracle.npmWrites

DirsOf(F) == {f.dir : f \in F} \ {"."}

\* AscPlugin::build_with_npm: the outcomes it can have from file system
\* (F, D).
build_with_npm(F, D) ==
    IF ~Exists(F, PackageJson)
    THEN {Out(Err("CompilationFailed", "No package.json found"), F, D, NoTrace)}
    ELSE
    LET cmd == select_manager(F)
        t == [NoTrace EXCEPT !.cmd = cmd, !.args = manager_args(cmd)]
        F1 == AfterManager(F)
        D1 == D \cup DirsOf(oracle.npmWrites)
    IN  IF cmd = "none"
        THEN {Out(Err("CompileToolNotFound", "npm, pnpm, yarn, or bun"), F, D, NoTrace)}
        ELSE IF oracle.npmExit = "spawn_error"
        THEN {Out(Err("Io", "spawn"), F, D, t)}
        ELSE IF oracle.npmExit # "ok"
        THEN {Out(Err("CompilationFailed", "manager build failed: stderr"), F1, D1, t)}
        ELSE IF first_wasm_file(F1) = {}
        THEN {Out(Err("CompilationFailed", "No WASM file found after build"), F1, D1, t)}
        ELSE {copy_to_output(F1, D1, src, config.output_dir, t) :
                  src \in first_wasm_file(F1)}

\* The optimization_level match of build_with_asc.
optimization_flags(level) ==
    CASE level = "Debug" -> <<"--debug">>
      [] level = "Release" -> <<"--optimize">>
      [] level = "Size" -> <<"--optimize", "--shrinkLevel", "2">>

\* build_with_asc taking a zero exit status as proof of the artifact.
build_with_asc_trusting_exit(F, D) ==
    LET run(e) ==
            LET wasm_file == File(config.output_dir, e.path.stem, "wasm")
                t == [NoTrace EXCEPT !.ascArgs =
                        [entry |-> e.path, outFile |-> wasm_file,
                         flags |-> <<"--target", "release">>
                                     \o optimization_flags(config.optimization_level)]]
                D1 == D \cup ({config.output_dir} \ {"."})
                F1 == IF oracle.ascWrites THEN F \cup {wasm_file} ELSE F
            IN  IF ~DirExists(D, config.output_dir) /\ ~oracle.ioOk
                THEN Out(Err("OutputDirectoryCreationFailed", "output_dir"), F, D, NoTrace)
                ELSE IF oracle.ascExit = "spawn_error"
                THEN Out(Err("Io", "spawn"), F, D1, t)
                ELSE IF oracle.ascExit # "ok"
                THEN Out(Err("CompilationFailed", "stderr"), F1, D1, t)
                ELSE Out(OkPath(wasm_file), F1, D1, t)
    IN  {IF e.ok THEN run(e) ELSE Out(e, F, D, NoTrace) : e \in find_entry_file(F)}

\* AscPlugin::build_with_asc: the outcomes it can have from file system
\* (F, D).
build_with_asc(F, D) ==
    LET run(e) ==
            LET wasm_file == File(config.output_dir, e.path.stem, "wasm")
                t == [NoTrace EXCEPT !.ascArgs =
                        [entry |-> e.path, outFile |-> wasm_file,
                         flags |-> <<"--target", "release">>
                                     \o optimization_flags(config.optimization_level)]]
                D1 == D \cup ({config.output_dir} \ {"."})
                F1 == IF oracle.ascWrites THEN F \cup {wasm_file} ELSE F
            IN  IF ~DirExists(D, config.output_dir) /\ ~oracle.ioOk
                THEN Out(Err("OutputDirectoryCreationFailed", "output_dir"), F, D, NoTrace)
                ELSE IF oracle.ascExit = "spawn_error"
                THEN Out(Err("Io", "spawn"), F, D1, t)
                ELSE IF oracle.ascExit # "ok"
                THEN Out(Err("CompilationFailed", "stderr"), F1, D1, t)
                ELSE IF ~Exists(F1, wasm_file)
                THEN Out(Err("CompilationFailed", "WASM file was not created"), F1, D1, t)
                ELSE Out(OkPath(wasm_file), F1, D1, t)
    IN  {IF e.ok THEN run(e) ELSE Out(e, F, D, NoTrace) : e \in find_entry_file(F)}

\* The record of a build that fell back: what the manager did, then what
\* the compiler did.
Both(n, a) ==
    Out(a.ret, a.files, a.dirs,
        [a.trace EXCEPT !.npmTried = TRUE, !.ascTried = TRUE,
                        !.cmd = n.trace.cmd, !.args = n.trace.args,
                        !.copies = n.trace.copies,
                        !.npmRet = n.ret, !.ascRet = a.ret])

OnlyNpm(n, r) ==
    Out(r, n.files, n.dirs, [n.trace EXCEPT !.npmTried = TRUE, !.npmRet = n.ret])

OnlyAsc(a) ==
    Out(a.ret, a.files, a.dirs, [a.trace EXCEPT !.ascTried = TRUE, !.ascRet = a.ret])

\* build with the manager's own error returned when asc is not installed.
build_surfacing_manager_error(F, D) ==
    IF Exists(F, PackageJson)
    THEN UNION {
            IF n.ret.ok
            THEN {OnlyNpm(n, n.ret)}
            ELSE IF is_tool_installed("asc")
            THEN {Both(n, a) : a \in build_with_asc(n.files, n.dirs)}
            ELSE {OnlyNpm(n, n.ret)}
         : n \in build_with_npm(F, D)}
    ELSE IF is_tool_installed("asc")
    THEN {OnlyAsc(a) : a \in build_with_asc(F, D)}
    ELSE {Out(Err("CompileToolNotFound", "asc"), F, D, NoTrace)}

\* build with the fallback's error replaced by the manager's when both fail.
build_keeping_first_error(F, D) ==
    IF Exists(F, PackageJson)
    THEN UNION {
            IF n.ret.ok
            THEN {OnlyNpm(n, n.ret)}
            ELSE IF is_tool_installed("asc")
            THEN {IF a.ret.ok THEN Both(n, a) ELSE OnlyNpm(n, n.ret) :
                      a \in build_with_asc(n.files, n.dirs)}
            ELSE {OnlyNpm(n, Err("CompileToolNotFound", "asc or npm/yarn"))}
         : n \in build_with_npm(F, D)}
    ELSE IF is_tool_installed("asc")
    THEN {OnlyAsc(a) : a \in build_with_asc(F, D)}
    ELSE {Out(Err("CompileToolNotFound", "asc"), F, D, NoTrace)}

\* WasmBuilder::build for AscPlugin: the outcomes it can have.
build(F, D) ==
    IF Exists(F, PackageJson)
    THEN UNION {
            IF n.ret.ok
            THEN {OnlyNpm(n, n.ret)}
            ELSE IF is_tool_installed("asc")
            THEN {Both(n, a) : a \in build_with_asc(n.files, n.dirs)}
            ELSE {OnlyNpm(n, Err("CompileToolNotFound", "asc or npm/yarn"))}
         : n \in build_with_npm(F, D)}
    ELSE IF is_tool_installed("asc")
    THEN {OnlyAsc(a) : a \in build_with_asc(F, D)}
    ELSE {Out(Err("CompileToolNotFound", "asc"), F, D, NoTrace)}

Apply(name, o) ==
    /\ op' = name
    /\ ret' = o.ret
    /\ files' = o.files
    /\ dirs' = o.dirs
    /\ trace' = o.trace
    /\ UNCHANGED <<projIsDir, manifest, envVars, log, ffiVars>>

Build == \E o \in build(files, dirs) : Apply("build", o)

BuildWithNpm ==
    \E n \in build_with_npm(files, dirs) : Apply("build_with_npm", OnlyNpm(n, n.ret))

BuildWithAsc ==
    \E a \in build_with_asc(files, dirs) : Apply("build_with_asc", OnlyAsc(a))

----------------------------------------------------------------------------
(* clean *)

\* <project>/build as a regular file: Path::exists holds of it, and
\* fs::remove_dir_all refuses it.
BuildAsFile == File(".", "build", "")

\* clean with remove_dir_all called whether or not build exists.
clean_unguarded(F, D) ==
    IF "build" \in D
    THEN {Out(OkUnit, {f \in F : f.dir # "build"}, D \ {"build"}, NoTrace)}
    ELSE {Out(Err("Io", "remove_dir_all"), F, D, NoTrace)}

\* WasmBuilder::clean for AscPlugin: the outcomes it can have.  A removal
\* that fails part-way has deleted some of the directory's entries.
clean(F, D) ==
    IF "build" \in D
    THEN {Out(OkUnit, {f \in F : f.dir # "build"}, D \ {"build"}, NoTrace)}
            \cup {Out(Err("Io", "remove_dir_all"), F \ gone, D, NoTrace) :
                      gone \in SUBSET ReadDir(F, "build")}
    ELSE IF Exists(F, BuildAsFile)
    THEN {Out(Err("Io", "remove_dir_all"), F, D, NoTrace)}
    ELSE {Out(OkUnit, F, D, NoTrace)}

\* How many clean calls a behaviour makes.
MaxCleans == 3

Clean ==
    /\ Len(log) < MaxCleans
    /\ \E o \in clean(files, dirs) :
          /\ op' = "clean"
          /\ ret' = o.ret
          /\ files' = o.files
          /\ dirs' = o.dirs
          /\ trace' = o.trace
          /\ log' = Append(log, o.ret)
    /\ UNCHANGED <<projIsDir, manifest, envVars, ffiVars>>

----------------------------------------------------------------------------
(* The C-ABI boundary.  A handle is the address of a Box<AscPlugin>; Null   *)
(* is the null pointer.  The host keeps to the documented contract of the   *)
(* unsafe functions: a builder pointer it passes is null or a handle it got *)
(* and has not yet dropped, a string pointer is null or a NUL-terminated C  *)
(* string (which need not be valid UTF-8), and the string fields of a       *)
(* BuildConfigC are C strings.                                              *)

Null == 0

\* How many heap addresses the allocator hands out.
MaxAddr == 3

Addrs == 1..MaxAddr

\* A C string pointer the boundary returns: null, or an owned string.
NullStr == [null |-> TRUE, path |-> NoPath, text |-> ""]

\* CString::new(path).unwrap_or_default().into_raw()
PathStr(p) == [null |-> FALSE, path |-> p, text |-> ""]

\* CString::new(format!("{e}")).unwrap_or_default().into_raw()
ErrorStr(e) == [null |-> FALSE, path |-> NoPath, text |-> e.err]

\* No BuildResultC (the call returned a null pointer, or was not a build).
NoRecord ==
    [null |-> TRUE, success |-> FALSE, wasm_path |-> NullStr, js_path |-> NullStr,
     is_wasm_bindgen |-> FALSE, error_message |-> NullStr]

\* BuildResultC with a builder error answered by a null pointer.
BuildResultC_or_null(r) ==
    IF r.ok
    THEN [null |-> FALSE, success |-> TRUE, wasm_path |-> PathStr(r.path),
          js_path |-> IF r.js = NoPath THEN NullStr ELSE PathStr(r.js),
          is_wasm_bindgen |-> r.bindgen, error_message |-> NullStr]
    ELSE NoRecord

\* The BuildResultC that wasmasc_build boxes for the builder's result r.
BuildResultC(r) ==
    IF r.ok
    THEN [null |-> FALSE, success |-> TRUE, wasm_path |-> PathStr(r.path),
          js_path |-> IF r.js = NoPath THEN NullStr ELSE PathStr(r.js),
          is_wasm_bindgen |-> r.bindgen, error_message |-> NullStr]
    ELSE [null |-> FALSE, success |-> FALSE, wasm_path |-> NullStr,
          js_path |-> NullStr, is_wasm_bindgen |-> FALSE,
          error_message |-> ErrorStr(r)]

\* A boundary call: the function, the builder pointer and the arguments the
\* host passed (was the config / path pointer null, are project_path and
\* output_dir UTF-8), whether the builder pointer was dereferenced after its
\* box had been freed, and what came back: a handle, a bool, a record.
NoCall ==
    [fn |-> "none", handle |-> Null, argNull |-> FALSE, utf8 |-> TRUE,
     utf8Out |-> TRUE, dangling |-> FALSE, out |-> Null, bool |-> FALSE,
     rec |-> NoRecord, built |-> FALSE]

\* &*(builder_ptr as *const AscPlugin) on a box that has been freed.
Dangling(h) == h # Null /\ h \notin heap

Called(fn, h) == [NoCall EXCEPT !.fn = fn, !.handle = h, !.dangling = Dangling(h)]

\* The handles the host holds: returned to it and not yet dropped.
HostHandles == {a \in Addrs : held[a] > 0}

\* wasmasc_plugin_create / create_wasm_builder: Box::new at a free address.
box_new(H, a) == [out |-> a, heap |-> H \cup {a}]

\* wasmasc_clone_box handing back its argument instead of a new box.
wasmasc_clone_box_shared(H, h, a) ==
    IF h = Null
    THEN [out |-> Null, heap |-> H]
    ELSE [out |-> h, heap |-> H]

\* wasmasc_clone_box: null for null, else clone_box() at a free address.
wasmasc_clone_box(H, h, a) ==
    IF h = Null
    THEN [out |-> Null, heap |-> H]
    ELSE box_new(H, a)

\* wasmasc_drop: Box::from_raw and drop, unless null.
wasmasc_drop(H, h) ==
    IF h # Null THEN H \ {h} ELSE H

Issue(fn, h, r) ==
    /\ heap' = r.heap
    /\ held' = IF r.out = Null THEN held ELSE [held EXCEPT ![r.out] = @ + 1]
    /\ call' = [Called(fn, h) EXCEPT !.out = r.out]
    /\ UNCHANGED <<fsVars, envVars, opVars, log, owned>>

WasmascPluginCreate ==
    /\ \E a \in Addrs \ heap : Issue("wasmasc_plugin_create", Null, box_new(heap, a))

CreateWasmBuilder ==
    /\ \E a \in Addrs \ heap : Issue("create_wasm_builder", Null, box_new(heap, a))

\* Cloning through a freed box is undefined: a new box or none.
WasmascCloneBox ==
    /\ \E h \in HostHandles \cup {Null} :
          \E a \in Addrs \ heap :
              \/ Issue("wasmasc_clone_box", h, wasmasc_clone_box(heap, h, a))
              \/ /\ Dangling(h)
                 /\ Issue("wasmasc_clone_box", h, [out |-> Null, heap |-> heap])

WasmascDrop ==
    \E h \in HostHandles \cup {Null} :
        /\ heap' = wasmasc_drop(heap, h)
        /\ held' = IF h = Null THEN held ELSE [held EXCEPT ![h] = @ - 1]
        /\ call' = Called("wasmasc_drop", h)
        /\ UNCHANGED <<fsVars, envVars, opVars, log, owned>>

\* wasmasc_can_handle_project
wasmasc_can_handle_project(h, pathNull, utf8) ==
    IF h = Null \/ pathNull
    THEN FALSE
    ELSE IF ~utf8
    THEN FALSE
    ELSE builder_can_handle_project

\* (Through a freed box the answer is undefined.)
WasmascCanHandleProject ==
    \E h \in HostHandles \cup {Null}, pathNull \in BOOLEAN, utf8 \in BOOLEAN :
        /\ \E b \in (IF Dangling(h) /\ ~pathNull
                     THEN BOOLEAN
                     ELSE {wasmasc_can_handle_project(h, pathNull, utf8)}) :
              call' = [Called("wasmasc_can_handle_project", h) EXCEPT
                            !.argNull = pathNull, !.utf8 = utf8, !.bool = b]
        /\ UNCHANGED <<heap, held, owned, fsVars, envVars, opVars, log>>

\* wasmasc_build: the outcomes it can have.  rec is the BuildResultC behind
\* the returned pointer (NoRecord for a null pointer).
wasmasc_build(h, configNull, utf8, utf8Out) ==
    IF h = Null \/ configNull
    THEN {[rec |-> NoRecord, built |-> FALSE, o |-> Out(NoRet, files, dirs, NoTrace)]}
    ELSE IF ~utf8
    THEN {[rec |-> NoRecord, built |-> FALSE, o |-> Out(NoRet, files, dirs, NoTrace)]}
    ELSE IF ~utf8Out
    THEN {[rec |-> NoRecord, built |-> FALSE, o |-> Out(NoRet, files, dirs, NoTrace)]}
    ELSE {[rec |-> BuildResultC(o.ret), built |-> TRUE, o |-> o] :
              o \in build(files, dirs)}

\* What a returned BuildResultC adds to the host's allocations: the box
\* (Box::into_raw) and one CString per non-null field (CString::into_raw).
NoOwned == [records |-> 0, strings |-> 0]

StringsOf(rec) ==
    Cardinality({f \in {"wasm_path", "js_path", "error_message"} : ~rec[f].null})

into_raw(own, rec) ==
    IF rec.null
    THEN own
    ELSE [records |-> own.records + 1, strings |-> own.strings + StringsOf(rec)]

\* How many result records a host leaves outstanding.
MaxRecords == 2

\* (Through a freed box the call is undefined: it may also return nothing.)
WasmascBuild ==
    /\ owned.records < MaxRecords
    /\ \E h \in HostHandles \cup {Null}, configNull \in BOOLEAN,
          utf8 \in BOOLEAN, utf8Out \in BOOLEAN :
        \E b \in wasmasc_build(h, configNull, utf8, utf8Out)
                    \cup (IF Dangling(h)
                          THEN wasmasc_build(Null, configNull, utf8, utf8Out)
                          ELSE {}) :
            /\ call' = [Called("wasmasc_build", h) EXCEPT
                            !.argNull = configNull, !.utf8 = utf8,
                            !.utf8Out = utf8Out,
                            !.rec = b.rec, !.built = b.built]
            /\ IF b.built
               THEN /\ op' = "build"
                    /\ ret' = b.o.ret
                    /\ trace' = b.o.trace
               ELSE UNCHANGED opVars
            /\ files' = b.o.files
            /\ dirs' = b.o.dirs
            /\ owned' = into_raw(owned, b.rec)
            /\ UNCHANGED <<heap, held, projIsDir, manifest, envVars, log>>

\* wasmasc_clean: the outcomes it can have.
wasmasc_clean(h, pathNull, utf8) ==
    IF h = Null \/ pathNull
    THEN {[bool |-> FALSE, o |-> Out(NoRet, files, dirs, NoTrace)]}
    ELSE IF ~utf8
    THEN {[bool |-> FALSE, o |-> Out(NoRet, files, dirs, NoTrace)]}
    ELSE {[bool |-> o.ret.ok, o |-> o] : o \in clean(files, dirs)}

\* (Through a freed box the call is undefined: it may also do nothing.)
WasmascClean ==
    \E h \in HostHandles \cup {Null}, pathNull \in BOOLEAN, utf8 \in BOOLEAN :
        \E c \in wasmasc_clean(h, pathNull, utf8)
                    \cup (IF Dangling(h)
                          THEN wasmasc_clean(Null, pathNull, utf8)
                          ELSE {}) :
            /\ call' = [Called("wasmasc_clean", h) EXCEPT
                            !.argNull = pathNull, !.utf8 = utf8, !.bool = c.bool]
            /\ files' = c.o.files
            /\ dirs' = c.o.dirs
            /\ UNCHANGED <<heap, held, owned, projIsDir, manifest, envVars,
                           opVars, log>>

----------------------------------------------------------------------------
(* The projects detection and validation are checked on *)

\* How many file stems besides index and main a directory may hold.
NumExtraStems == 1

StemNames == <<"util", "helper", "lib">>

ExtraStems == {StemNames[i] : i \in 1..NumExtraStems}

DetectUniverse ==
    Range(Phase1Candidates)
        \cup {File(d, s, "ts") : d \in Range(ScanDirs), s \in ExtraStems}
        \cup {PackageJson, File("assembly", "package", "json")}

ManifestTexts ==
    { <<"{", "}">>,
      <<"a", "s", "c">>,
      <<"{", "@", "a", "s", "c", "}">>,
      <<"a", "s", "x", "c">> }

NoOracle ==
    [npmExit |-> "ok", npmWrites |-> {}, ascExit |-> "ok", ascWrites |-> FALSE,
     ioOk |-> TRUE]

IdleRest ==
    /\ tools = {}
    /\ config = [output_dir |-> "OUT", optimization_level |-> "Release"]
    /\ oracle = NoOracle
    /\ op = "none"
    /\ ret = NoRet
    /\ trace = NoTrace
    /\ log = <<>>
    /\ heap = {}
    /\ held = [a \in Addrs |-> 0]
    /\ call = NoCall
    /\ owned = NoOwned

InitDetect ==
    /\ projIsDir \in BOOLEAN
    /\ files \in (IF projIsDir THEN SUBSET DetectUniverse ELSE {{}})
    /\ dirs = {f.dir : f \in files} \ {"."}
    /\ manifest \in (IF PackageJson \in files THEN ManifestTexts ELSE {<<>>})
    /\ IdleRest

NextDetect ==
    \/ FindEntryFile
    \/ ValidateProject
    \/ BuilderCanHandleProject
    \/ PluginCanHandleProject

SpecDetect == InitDetect /\ [][NextDetect]_vars

----------------------------------------------------------------------------
(* The projects and environments the build is checked on *)

Exits == {"ok", "fail", "spawn_error"}

Levels == {"Debug", "Release", "Size"}

\* Where config.output_dir points: a directory of its own, or the project's
\* dist directory (the command line's default, ./dist for project ".").
OutputDirs == {"OUT", "dist"}

BuildEntryFiles == {File("assembly", "index", "ts"), File("src", "util", "ts")}

BuildWasmFiles == {File("build", "app", "wasm"), File(".", "lib", "wasm")}

NpmWasmFiles ==
    {File(SearchDirs[i], "app", "wasm") : i \in 1..Len(SearchDirs)}
        \cup {File("build", "lib", "wasm"), File("dist", "lib", "wasm")}

InitEnv(toolSet, lockSet, entrySet, wasmSet, levels) ==
    /\ projIsDir = TRUE
    /\ tools \in SUBSET toolSet
    /\ \E m \in BOOLEAN, l \in SUBSET lockSet, e \in SUBSET entrySet :
          files = (IF m THEN {PackageJson} ELSE {}) \cup l \cup e
    /\ manifest = (IF PackageJson \in files THEN <<"{", "}">> ELSE <<>>)
    /\ config \in [output_dir : OutputDirs, optimization_level : levels]
    /\ dirs \in {DirsOf(files), DirsOf(files) \cup {config.output_dir}}
    /\ oracle \in [npmExit : Exits, npmWrites : SUBSET wasmSet,
                   ascExit : Exits, ascWrites : BOOLEAN, ioOk : BOOLEAN]
    /\ op = "none"
    /\ ret = NoRet
    /\ trace = NoTrace
    /\ log = <<>>
    /\ heap = {}
    /\ held = [a \in Addrs |-> 0]
    /\ call = NoCall
    /\ owned = NoOwned

InitBuild == InitEnv({"asc", "npm"}, {}, BuildEntryFiles, BuildWasmFiles, Levels)

NextBuild == Build \/ BuildWithAsc

SpecBuild == InitBuild /\ [][NextBuild]_vars

InitNpm ==
    /\ InitEnv({"npm", "yarn"}, {Lockfile("yarn")}, {}, NpmWasmFiles, {"Release"})
    /\ oracle.ascExit = "ok"
    /\ ~oracle.ascWrites

NextNpm == BuildWithNpm

SpecNpm == InitNpm /\ [][NextNpm]_vars

\* Every combination of installed package managers and lockfiles.
Managers == {"bun", "pnpm", "yarn", "npm"}

Lockfiles == {Lockfile("bun"), Lockfile("pnpm"), Lockfile("yarn")}

InitManager ==
    /\ InitEnv(Managers \cup {"asc"}, Lockfiles, {}, {File("build", "app", "wasm")},
               {"Release"})
    /\ oracle.ascExit = "ok"
    /\ ~oracle.ascWrites

NextManager == Build

SpecManager == InitManager /\ [][NextManager]_vars

\* Artifacts a previous build may have left in the output directory.
StaleArtifacts == {File("OUT", "index", "wasm")}

InitAsc ==
    /\ InitEnv({"asc"}, {}, BuildEntryFiles \cup StaleArtifacts, {}, Levels)
    /\ oracle.npmExit = "ok"

NextAsc == BuildWithAsc

SpecAsc == InitAsc /\ [][NextAsc]_vars

----------------------------------------------------------------------------
(* The projects clean is checked on *)

CleanBuildFiles == {File("build", "app", "wasm"), File("build", "lib", "wasm")}

CleanOtherFiles == {PackageJson, File("dist", "app", "wasm")}

InitClean ==
    /\ projIsDir = TRUE
    /\ \E kind \in {"absent", "file", "dir"} :
          \E b \in SUBSET CleanBuildFiles, o \in SUBSET CleanOtherFiles :
            /\ files = o \cup (IF kind = "dir" THEN b ELSE {})
                         \cup (IF kind = "file" THEN {BuildAsFile} ELSE {})
            /\ dirs = DirsOf(o) \cup (IF kind = "dir" THEN {"build"} ELSE {})
    /\ manifest = (IF PackageJson \in files THEN <<"{", "}">> ELSE <<>>)
    /\ IdleRest

NextClean == Clean

SpecClean == InitClean /\ [][NextClean]_vars

----------------------------------------------------------------------------
(* The host session: handles created, cloned, used and dropped *)

FfiEntryFile == File("assembly", "index", "ts")

FfiWasmFile == File("build", "app", "wasm")

Init ==
    /\ projIsDir = TRUE
    /\ tools \in SUBSET {"asc", "npm"}
    /\ files \in {{FfiEntryFile}, {FfiEntryFile, PackageJson}}
    /\ dirs \in {DirsOf(files), DirsOf(files) \cup {"OUT"}}
    /\ manifest = (IF PackageJson \in files THEN <<"{", "}">> ELSE <<>>)
    /\ config = [output_dir |-> "OUT", optimization_level |-> "Release"]
    /\ oracle \in [npmExit : {"ok"}, npmWrites : {{FfiWasmFile}},
                   ascExit : {"ok", "fail"}, ascWrites : {TRUE}, ioOk : {TRUE}]
    /\ op = "none"
    /\ ret = NoRet
    /\ trace = NoTrace
    /\ log = <<>>
    /\ heap = {}
    /\ held = [a \in Addrs |-> 0]
    /\ call = NoCall
    /\ owned = NoOwned

Next ==
    \/ WasmascPluginCreate
    \/ CreateWasmBuilder
    \/ WasmascCloneBox
    \/ WasmascDrop
    \/ WasmascCanHandleProject
    \/ WasmascBuild
    \/ WasmascClean

Spec == Init /\ [][Next]_vars

----------------------------------------------------------------------------
(* Claims about detection and validation, under SpecDetect *)

\* What the claims call the Phase-1 list: the exact candidate paths that
\* discovery checks, most idiomatic location first, root last.
ClaimedPhase1 ==
    << File("assembly", "index", "ts"), File("assembly", "main", "ts"),
       File("src", "index", "ts"), File("src", "main", "ts"),
       File(".", "index", "ts"), File(".", "main", "ts") >>

Phase1Found == \E i \in 1..Len(ClaimedPhase1) : ClaimedPhase1[i] \in files

Phase2Found ==
    \E f \in files : f.ext = "ts" /\ f.dir \in {"assembly", "src", "."}

\* C3 (as claimed): a project whose package.json holds no "asc" token and
\* that has no entry file is rejected by the Builder's can_handle_project.
\* "Lacks all known entry files" is read as generously as it can be: the
\* project holds nothing but the manifest itself (no .ts file anywhere, no
\* other file of entry_file_candidates).
C3_NoTokenNoEntryRejected ==
    ( /\ op = "can_handle_project"
      /\ PackageJson \in files
      /\ ~Contains(manifest, <<"a", "s", "c">>)
      /\ \A f \in files : f = PackageJson )
        => ret.bool = FALSE

\* C4: validate_project returns InvalidProjectStructure for a path that is
\* no directory, MissingEntryFile for a directory in which neither phase
\* finds an entry file, Ok(()) otherwise, and no other error.
C4_ValidateProjectOutcomes ==
    op = "validate_project" =>
        /\ (~projIsDir) => (~ret.ok /\ ret.err = "InvalidProjectStructure")
        /\ (projIsDir /\ ~Phase1Found /\ ~Phase2Found)
              => (~ret.ok /\ ret.err = "MissingEntryFile")
        /\ (projIsDir /\ (Phase1Found \/ Phase2Found)) => ret = OkUnit
        /\ ret.err \in {"none", "InvalidProjectStructure", "MissingEntryFile"}

\* C4's case: a directory that holds files, none of them an entry file.
C4_Witness ==
    /\ op = "validate_project"
    /\ projIsDir
    /\ files # {}
    /\ ret.err = "MissingEntryFile"

\* C5 (as claimed): the candidates of MissingEntryFile are the Phase-1 list,
\* same elements, same order.
C5_MissingListsPhase1 ==
    ( /\ op = "validate_project"
      /\ PackageJson \notin files
      /\ ~Phase1Found
      /\ ~Phase2Found
      /\ ret.err = "MissingEntryFile" )
        => ret.candidates = ClaimedPhase1

\* C6: when a Phase-1 candidate exists, resolution returns the earliest
\* existing one whatever other .ts files there are, and validate_project
\* succeeds; a path outside the list is returned only when no candidate
\* exists.
C6_Phase1Priority ==
    /\ (op = "find_entry_file" /\ Phase1Found) =>
          \E i \in 1..Len(ClaimedPhase1) :
              /\ ClaimedPhase1[i] \in files
              /\ \A j \in 1..(i - 1) : ClaimedPhase1[j] \notin files
              /\ ret = OkPath(ClaimedPhase1[i])
    /\ (op = "validate_project" /\ projIsDir /\ Phase1Found) => ret = OkUnit
    /\ (op = "find_entry_file" /\ ret.ok /\ ret.path \notin Range(ClaimedPhase1))
          => ~Phase1Found

\* C6's case: two candidates and a stray .ts file in the first scanned
\* directory; the earlier candidate is returned.
C6_Witness ==
    /\ op = "find_entry_file"
    /\ File("src", "main", "ts") \in files
    /\ File(".", "index", "ts") \in files
    /\ File("assembly", "index", "ts") \notin files
    /\ File("assembly", "main", "ts") \notin files
    /\ File("src", "index", "ts") \notin files
    /\ \E f \in files : f.dir = "assembly" /\ f.ext = "ts"
    /\ ret = OkPath(File("src", "main", "ts"))

----------------------------------------------------------------------------
(* Claims about the build, under SpecBuild and SpecNpm.  They relate the    *)
(* file system before a build step to the result after it, so they are      *)
(* properties of steps.                                                     *)

ManifestPresent == PackageJson \in files

AscInstalled == "asc" \in tools

\* Some manager passes the probe of the package-manager strategy.
ManagerAvailable ==
    \/ "bun" \in tools /\ File(".", "bun", "lockb") \in files
    \/ "pnpm" \in tools /\ File(".", "pnpm-lock", "yaml") \in files
    \/ "yarn" \in tools /\ File(".", "yarn", "lock") \in files
    \/ "npm" \in tools

ClaimedSearchOrder == <<"build", "dist", "out", "target", ".">>

\* The .wasm files on disk once the manager's script has run.
WasmAfterManager ==
    {f \in files \cup oracle.npmWrites :
        f.ext = "wasm" /\ f.dir \in Range(ClaimedSearchOrder)}

\* The output directory exists when the copy is attempted.
OutputDirThere ==
    \/ config.output_dir \in dirs
    \/ \E f \in oracle.npmWrites : f.dir = config.output_dir

\* One of the failures the claim lists: no manager, non-zero exit (or no
\* process at all), no .wasm found, copy error.
ManagerStrategyFails ==
    \/ ~ManagerAvailable
    \/ oracle.npmExit # "ok"
    \/ WasmAfterManager = {}
    \/ ~OutputDirThere
    \/ ~oracle.ioOk

\* C1: build follows the strategy-selection table.
C1_StrategySelection ==
    [][ op' = "build" =>
          /\ ManifestPresent =>
                /\ trace'.npmTried
                /\ ManagerStrategyFails <=> ~trace'.npmRet.ok
                /\ trace'.npmRet.ok => (ret' = trace'.npmRet /\ ~trace'.ascTried)
                /\ (~trace'.npmRet.ok /\ AscInstalled) =>
                      /\ trace'.ascTried
                      /\ ret' = trace'.ascRet
                      /\ \E n \in build_with_npm(files, dirs) :
                            \E a \in build_with_asc(n.files, n.dirs) : ret' = a.ret
                /\ (~trace'.npmRet.ok /\ ~AscInstalled) =>
                      /\ ~trace'.ascTried
                      /\ ~ret'.ok
                      /\ ret'.err = "CompileToolNotFound"
          /\ ~ManifestPresent =>
                /\ ~trace'.npmTried
                /\ trace'.cmd = "none"
                /\ AscInstalled =>
                      /\ trace'.ascTried
                      /\ \E a \in build_with_asc(files, dirs) : ret' = a.ret
                /\ ~AscInstalled =>
                      /\ ~trace'.ascTried
                      /\ ~ret'.ok
                      /\ ret'.err = "CompileToolNotFound"
      ]_vars

\* C1's case: the manager ran and failed, asc is not installed, and the
\* build reports CompileToolNotFound instead of the manager's error.
C1_Witness ==
    /\ op = "build"
    /\ trace.npmTried
    /\ trace.cmd = "npm"
    /\ trace.npmRet.err = "CompilationFailed"
    /\ ~trace.ascTried
    /\ ret.err = "CompileToolNotFound"

\* The manager ran its build script and the script exited non-zero, with
\* asc installed.
ManagerExitsNonZero ==
    /\ ManifestPresent
    /\ ManagerAvailable
    /\ oracle.npmExit = "fail"
    /\ AscInstalled

\* C2 (as claimed): with a manifest, a non-zero exit of the manager's build
\* and asc installed, build succeeds via the fallback and never surfaces the
\* manager's error.
C2_FallbackSucceeds ==
    [][ (op' = "build" /\ ManagerExitsNonZero) =>
          /\ ret'.ok
          /\ ret' # trace'.npmRet
      ]_vars

\* C2 (amended): with a manifest, a non-zero exit of the manager's build and
\* asc installed, build takes the fallback and returns exactly the
\* direct-compiler strategy's outcome, success or failure; the manager's
\* error is never the result.
C2_FallbackOutcome ==
    [][ (op' = "build" /\ ManagerExitsNonZero) =>
          /\ trace'.npmTried
          /\ trace'.npmRet = Err("CompilationFailed", "manager build failed: stderr")
          /\ trace'.ascTried
          /\ ret' = trace'.ascRet
          /\ ret' # trace'.npmRet
          /\ \E a \in build_with_asc(files \cup oracle.npmWrites,
                                     dirs \cup DirsOf(oracle.npmWrites)) :
                ret' = a.ret
          /\ ret'.ok => (oracle.ascExit = "ok" /\ ret'.path \in files')
          /\ oracle.ascExit # "ok" => ~ret'.ok
      ]_vars

\* C2's case: the manager's script failed, the fallback ran and failed too,
\* and the error returned is the compiler's.
C2_Witness ==
    /\ op = "build"
    /\ oracle.npmExit = "fail"
    /\ trace.npmRet = Err("CompilationFailed", "manager build failed: stderr")
    /\ trace.ascTried
    /\ ret = Err("CompilationFailed", "stderr")

\* The manager's build script ran and exited zero.
ManagerSucceeded ==
    /\ ManifestPresent
    /\ ManagerAvailable
    /\ oracle.npmExit = "ok"

\* f is an entry of the first directory, in the claimed order, that holds a
\* .wasm file once the manager has run.
InFirstWasmDir(f) ==
    \E i \in 1..Len(ClaimedSearchOrder) :
        /\ f \in WasmAfterManager
        /\ f.dir = ClaimedSearchOrder[i]
        /\ \A j \in 1..(i - 1) :
              \A g \in WasmAfterManager : g.dir # ClaimedSearchOrder[j]

\* C7 (as claimed): after a successful package-manager build with .wasm
\* files in the searched directories, exactly one file is copied into
\* output_dir, the first file of the first directory holding any; wasm_path
\* is output_dir joined with its name, the copy and not the original; nothing
\* else is copied; no match at all is CompilationFailed.  Read in the claim's
\* favour: only builds whose copy the operating system does not refuse.
C7_OneCopyNotOriginal ==
    [][ (op' = "build_with_npm" /\ ManagerSucceeded) =>
          /\ (WasmAfterManager # {} /\ OutputDirThere /\ oracle.ioOk) =>
                \E src \in WasmAfterManager :
                    /\ InFirstWasmDir(src)
                    /\ ret'.ok
                    /\ trace'.copies = {[src |-> src, dst |-> ret'.path]}
                    /\ ret'.path = File(config.output_dir, src.stem, src.ext)
                    /\ ret'.path # src
                    /\ files' = files \cup oracle.npmWrites \cup {ret'.path}
          /\ WasmAfterManager = {} =>
                (~ret'.ok /\ ret'.err = "CompilationFailed")
      ]_vars

\* C7 (amended): after the manager's build exits zero with .wasm files in
\* the searched directories, the one file build_with_npm copies is the first
\* file of the first directory holding any.  If the copy succeeds the result
\* is Ok, wasm_path is output_dir joined with that file's name, nothing
\* else is written, and wasm_path is a path other than the original's
\* exactly when output_dir is not the directory the file was found in.  If
\* the copy fails (output_dir absent, which build_with_npm never creates, or
\* not writable) nothing is copied and the result is an Io error.  No match
\* at all is CompilationFailed.
C7_OneCopy ==
    [][ (op' = "build_with_npm" /\ ManagerSucceeded) =>
          /\ (WasmAfterManager # {} /\ OutputDirThere /\ oracle.ioOk) =>
                \E src \in WasmAfterManager :
                    /\ InFirstWasmDir(src)
                    /\ ret'.ok
                    /\ trace'.copies = {[src |-> src, dst |-> ret'.path]}
                    /\ ret'.path = File(config.output_dir, src.stem, src.ext)
                    /\ (ret'.path # src) <=> (config.output_dir # src.dir)
                    /\ files' = files \cup oracle.npmWrites \cup {ret'.path}
                    /\ ret'.js = NoPath
                    /\ ~ret'.bindgen
          /\ (WasmAfterManager # {} /\ ~(OutputDirThere /\ oracle.ioOk)) =>
                /\ ~ret'.ok
                /\ ret'.err = "Io"
                /\ trace'.copies = {}
                /\ files' = files \cup oracle.npmWrites
          /\ WasmAfterManager = {} =>
                (~ret'.ok /\ ret'.err = "CompilationFailed" /\ trace'.copies = {})
      ]_vars

\* C7's case: .wasm files in three searched directories, two of them in the
\* first; one of those two was copied into an output directory of its own.
C7_Witness ==
    /\ op = "build_with_npm"
    /\ ret.ok
    /\ config.output_dir = "OUT"
    /\ {File("build", "app", "wasm"), File("build", "lib", "wasm"),
        File("dist", "app", "wasm"), File(".", "app", "wasm")} \subseteq files
    /\ ret.path = File("OUT", "lib", "wasm")
    /\ trace.copies = {[src |-> File("build", "lib", "wasm"), dst |-> ret.path]}
    /\ File("OUT", "app", "wasm") \notin files

----------------------------------------------------------------------------
(* Claims about clean, under SpecClean *)

Last(q) == q[Len(q)]

\* C8 (as claimed): clean on a project with no build directory succeeds and
\* changes nothing; a removal that succeeds leaves no build directory; every
\* clean call after the first succeeds and leaves the file system unchanged.
C8_CleanIdempotent ==
    [][ op' = "clean" /\ log' # log =>
          /\ "build" \notin dirs => (ret'.ok /\ files' = files /\ dirs' = dirs)
          /\ ("build" \in dirs /\ ret'.ok) => "build" \notin dirs'
          /\ log # <<>> => (ret'.ok /\ files' = files /\ dirs' = dirs)
      ]_vars

\* C8 (amended): clean on a project with no entry named build succeeds and
\* changes nothing; a removal that succeeds leaves no build directory and
\* touches nothing outside it; once a clean call has succeeded, every later
\* clean call succeeds and leaves the file system unchanged.  (A clean that
\* failed can fail again, and clean fails every time when build is a regular
\* file.)
C8_CleanIdempotentOnceClean ==
    [][ op' = "clean" /\ log' # log =>
          /\ ("build" \notin dirs /\ BuildAsFile \notin files)
                => (ret' = OkUnit /\ files' = files /\ dirs' = dirs)
          /\ ("build" \in dirs /\ ret'.ok) =>
                /\ "build" \notin dirs'
                /\ \A f \in files' : f.dir # "build"
                /\ files' = {f \in files : f.dir # "build"}
                /\ dirs' = dirs \ {"build"}
          /\ (log # <<>> /\ Last(log).ok)
                => (ret' = OkUnit /\ files' = files /\ dirs' = dirs)
          /\ ~ret'.ok => ret'.err = "Io"
      ]_vars

\* C8's case: a build directory with artifacts in it, a clean that failed
\* part-way, one that removed it, and a third that found nothing to do.
C8_Witness ==
    /\ op = "clean"
    /\ Len(log) = 3
    /\ ~log[1].ok
    /\ log[2] = OkUnit
    /\ log[3] = OkUnit
    /\ "build" \notin dirs
    /\ File("dist", "app", "wasm") \in files

----------------------------------------------------------------------------
(* Claims about the C-ABI boundary, under Spec *)

\* In a returned record exactly one of wasm_path and error_message is set,
\* as the success flag says.
RecordWellFormed(r) ==
    /\ r.success =>
          (~r.wasm_path.null /\ r.error_message.null)
    /\ ~r.success =>
          (~r.error_message.null /\ r.wasm_path.null /\ r.js_path.null)

C10_HandlesIndependent ==
    /\ [](\A a \in Addrs : held[a] <= 1 /\ (held[a] > 0 => a \in heap))
    /\ [](~call.dangling)
    /\ [][ /\ (call'.fn \in {"wasmasc_plugin_create", "create_wasm_builder",
                            "wasmasc_clone_box"} /\ call'.out # Null) =>
                /\ held[call'.out] = 0
                /\ call'.out \notin heap
                /\ heap' = heap \cup {call'.out}
           /\ \A a \in heap \ heap' :
                call'.fn = "wasmasc_drop" /\ call'.handle = a
           /\ (call'.fn = "wasmasc_drop" /\ call'.handle # Null) =>
                /\ heap' = heap \ {call'.handle}
                /\ \A a \in Addrs \ {call'.handle} : held'[a] = held[a]
           /\ (call'.fn \in {"wasmasc_clone_box", "wasmasc_drop"}
                  /\ call'.handle = Null) =>
                (call'.out = Null /\ heap' = heap /\ held' = held)
           /\ call'.fn \in {"wasmasc_can_handle_project", "wasmasc_build",
                            "wasmasc_clean"} =>
                (heap' = heap /\ held' = held)
         ]_vars

\* C10's case: a handle has just been dropped while two others are held,
\* and both are still live boxes.
C10_Witness ==
    /\ call.fn = "wasmasc_drop"
    /\ call.handle # Null
    /\ call.handle \notin heap
    /\ \E a, b \in Addrs : a # b /\ held[a] = 1 /\ held[b] = 1 /\ {a, b} \subseteq heap


\* The owned allocations outstanding with the host: builder handles it holds,
\* result records, and the strings inside them.
Outstanding == Cardinality(HostHandles) + owned.records + owned.strings

\* C11: every kind of owned allocation the boundary hands out (builder
\* handles, BuildResultC records, the strings inside them) has an exported
\* freeing operation: whenever any of a kind is outstanding, some call of
\* the boundary leaves fewer of that kind outstanding, so the host can always
\* get back to a state with no outstanding owned allocation.
C11_EveryAllocationFreeable ==
    /\ HostHandles # {} =>
          ENABLED (Next /\ Cardinality(HostHandles') < Cardinality(HostHandles))
    /\ owned.records > 0 =>
          ENABLED (Next /\ owned'.records < owned.records)
    /\ owned.strings > 0 =>
          ENABLED (Next /\ owned'.strings < owned.strings)

----------------------------------------------------------------------------
(* Claims that compare the detection checks, under SpecDetect *)

\* package.json at the project root mentions the toolchain token.
ManifestMentionsToken ==
    PackageJson \in files /\ Contains(manifest, <<"a", "s", "c">>)

AssemblyEntryExists ==
    File("assembly", "index", "ts") \in files \/ File("assembly", "main", "ts") \in files

\* C12 (as claimed): the Facade's can_handle_project returns true exactly
\* when the manifest mentions the token or assembly/index.ts or
\* assembly/main.ts exists, and it returns true whenever the Builder's
\* can_handle_project returns true of the same directory.  The comparison is
\* stated of the directories that hold no package.json, where the Builder's
\* answer rests on source files alone.
C12_FacadeLooser ==
    op = "plugin_can_handle_project" =>
        /\ ret.bool = (ManifestMentionsToken \/ AssemblyEntryExists)
        /\ (builder_can_handle_project /\ \A f \in files : f.ext # "json")
              => ret.bool

\* C12 (amended): the Facade's can_handle_project returns true exactly when
\* the manifest mentions the token or assembly/index.ts or assembly/main.ts
\* exists, and whenever it returns true the Builder's can_handle_project
\* returns true of the same directory.
C12_FacadeNarrower ==
    op = "plugin_can_handle_project" =>
        /\ ret.bool = (ManifestMentionsToken \/ AssemblyEntryExists)
        /\ ret.bool => builder_can_handle_project

\* C12's case: the Facade accepted a directory on assembly/main.ts alone.
C12_Witness ==
    /\ op = "plugin_can_handle_project"
    /\ ret.bool
    /\ files = {File("assembly", "main", "ts")}

\* C13: validate_project is stricter than detection: whenever it returns Ok
\* of a project path, the Builder's can_handle_project returns true of the
\* same path.
C13_ValidateImpliesDetect ==
    (op = "validate_project" /\ ret.ok) => builder_can_handle_project

----------------------------------------------------------------------------
(* Claims about the two strategies, under SpecManager and SpecBuild *)

\* The manager the claim says is selected ("none": no manager).
ClaimedManager ==
    IF "bun" \in tools /\ File(".", "bun", "lockb") \in files THEN "bun"
    ELSE IF "pnpm" \in tools /\ File(".", "pnpm-lock", "yaml") \in files THEN "pnpm"
    ELSE IF "yarn" \in tools /\ File(".", "yarn", "lock") \in files THEN "yarn"
    ELSE IF "npm" \in tools THEN "npm"
    ELSE "none"

ClaimedLockfile ==
    [bun |-> File(".", "bun", "lockb"), pnpm |-> File(".", "pnpm-lock", "yaml"),
     yarn |-> File(".", "yarn", "lock")]

\* C14: whenever a build runs the package-manager strategy, the manager it
\* selects is bun if bun is installed and bun.lockb exists, else pnpm if
\* installed with pnpm-lock.yaml, else yarn if installed with yarn.lock, else
\* npm if installed; with none of these the strategy fails with
\* CompileToolNotFound and runs no process.  bun, pnpm and yarn are selected
\* only when installed with their lockfile present, and the arguments are
\* `build` for yarn and `run build` for the others.
C14_ManagerSelection ==
    [][ (op' = "build" /\ trace'.npmTried) =>
          /\ trace'.cmd = ClaimedManager
          /\ trace'.cmd = "none" =>
                /\ ~trace'.npmRet.ok
                /\ trace'.npmRet.err = "CompileToolNotFound"
                /\ trace'.args = <<>>
                /\ trace'.copies = {}
                /\ ~trace'.ascTried => (files' = files /\ dirs' = dirs)
          /\ \A m \in {"bun", "pnpm", "yarn"} :
                trace'.cmd = m => (m \in tools /\ ClaimedLockfile[m] \in files)
          /\ trace'.cmd = "npm" => "npm" \in tools
          /\ trace'.cmd = "yarn" => trace'.args = <<"build">>
          /\ trace'.cmd \in {"bun", "pnpm", "npm"} => trace'.args = <<"run", "build">>
      ]_vars

\* C14's case: bun and pnpm are installed without their lockfiles, yarn is
\* installed with yarn.lock, and the build ran `yarn build`.
C14_Witness ==
    /\ op = "build"
    /\ trace.npmTried
    /\ {"bun", "pnpm", "yarn", "npm"} \subseteq tools
    /\ File(".", "bun", "lockb") \notin files
    /\ File(".", "pnpm-lock", "yaml") \notin files
    /\ File(".", "yarn", "lock") \in files
    /\ trace.cmd = "yarn"
    /\ trace.args = <<"build">>

\* C15: the direct-compiler strategy returns Ok only if asc exited with
\* status zero and output_dir/<entry stem>.wasm exists after it ran; when asc
\* ran and exited non-zero the result is CompilationFailed with the captured
\* standard error; when it exited zero and the artifact is absent the result
\* is CompilationFailed; every Ok result has wasm_path equal to the artifact
\* path, js_path None, no additional files and is_wasm_bindgen false.
C15_DirectCompilerOutcome ==
    [][ op' = "build_with_asc" =>
          LET entry == trace'.ascArgs.entry
              artifact == File(config.output_dir, entry.stem, "wasm")
              ran == entry # NoPath /\ oracle.ascExit # "spawn_error"
          IN  /\ ret'.ok =>
                    /\ ran
                    /\ entry \in files
                    /\ oracle.ascExit = "ok"
                    /\ artifact \in files'
                    /\ ret'.path = artifact
                    /\ ret'.js = NoPath
                    /\ ret'.additional = <<>>
                    /\ ~ret'.bindgen
              /\ (ran /\ oracle.ascExit # "ok") =>
                    /\ ~ret'.ok
                    /\ ret'.err = "CompilationFailed"
                    /\ ret'.reason = "stderr"
              /\ (ran /\ oracle.ascExit = "ok" /\ artifact \notin files') =>
                    /\ ~ret'.ok
                    /\ ret'.err = "CompilationFailed"
      ]_vars

\* C15's case: asc exited zero without writing the artifact, none was there
\* before, and the strategy reported CompilationFailed.
C15_Witness ==
    /\ op = "build_with_asc"
    /\ trace.ascArgs.entry # NoPath
    /\ oracle.ascExit = "ok"
    /\ ~oracle.ascWrites
    /\ trace.ascArgs.outFile \notin files
    /\ ret.err = "CompilationFailed"
    /\ ret.reason = "WASM file was not created"

====
